---- MODULE Spec2Model ----
(***************************************************************************)
(* Negotiation / order / payment core of the Rizana marketplace backend:   *)
(* conversation -> message / proposal -> accept / refuse -> order ->       *)
(* payment intent -> confirmation -> payout.                               *)
(*                                                                         *)
(* The state is the content of the database tables the handlers read and   *)
(* write, plus the payment intents held by the payment provider.  Every    *)
(* handler runs in its own database session (dependencies.get_session), so *)
(* a handler that raises before its commit leaves the tables as they were; *)
(* what it had already committed stays.  Each action is one handler call;  *)
(* `last` records the call and its outcome ("ok" or the exception raised). *)
(*                                                                         *)
(* Amounts are in hundredths of the currency unit (the code uses floats of *)
(* two decimals).  Row ids are positions in the table (rows of these       *)
(* tables are never deleted by the modelled handlers).                     *)
(***************************************************************************)
EXTENDS Integers, Sequences, FiniteSets, TLC

\* ---------------------------------------------------------------- bounds
MaxConversations == 2
MaxMessages == 1
MaxProposals == 1
MaxRivalProposals == 2
MaxOrders == 1
MaxResoldOrders == 2
MaxIntents == 2
MaxTime == 1

\* ------------------------------------------------------ data of the model
\* The users active from the start.  GhostUser is an id no user row has.
Users == {1, 2, 3}
GhostUser == 4
UserIds == Users \cup {GhostUser}

\* The listed items: item 1 of user 1 at 10.10, item 2 of user 2 at 0
\* (BaseItem.price is only required to be >= 0).  GhostItem has no row.
Items == {1, 2}
GhostItem == 3
ItemOwner(i) == IF i = 1 THEN 1 ELSE 2
ItemPrice(i) == IF i = 1 THEN 1010 ELSE 0

\* The prices a proposal request carries (ProposalBase.proposed_price > 0).
ProposalPrices == {990}

\* An absent optional id (None).
NoId == 0

\* The confirm_payment requests that may be in flight together, and the
\* state of a request that is not running.
Requests == {1, 2}
Idle == [pc |-> "idle", intent |-> NoId, paid |-> FALSE, succeeded |-> FALSE]

VARIABLES
    conversations,    \* Conversation rows
    messages,         \* Message rows
    proposals,        \* Proposal rows
    paymentMethods,   \* PaymentMethod rows
    billingAddresses, \* BillingAddress rows
    orders,           \* Order rows
    cancellations,    \* OrderCancellation rows
    sellerAccounts,   \* the users having a StripeSellerAccount row
    bankAccounts,     \* the users having at least one bank account row
    intents,          \* the payment intents held by the payment provider
    payouts,          \* Payout rows
    createdItems,     \* Item rows added through create_item
    itemImages,       \* ItemImage rows of those items
    itemCategoryLinks,\* ItemCategoryLink rows of those items
    confirming,       \* the confirm_payment requests in flight
    accounts,         \* User rows registered through create_user
    activations,      \* EmailActivation rows
    now,              \* the clock read by datetime.now()
    last              \* the last handler call and its outcome

vars == <<conversations, messages, proposals, paymentMethods, billingAddresses,
          orders, cancellations, sellerAccounts, bankAccounts, intents, payouts,
          createdItems, itemImages, itemCategoryLinks, confirming,
          accounts, activations, now, last>>

userVars == <<accounts, activations>>
itemVars == <<createdItems, itemImages, itemCategoryLinks>>
restVars == <<userVars, itemVars, confirming>>
chatVars == <<conversations, messages, proposals>>
orderVars == <<paymentMethods, billingAddresses, orders, cancellations>>
payVars == <<sellerAccounts, bankAccounts, intents, payouts>>

\* The outcome of a handler: "ok", or the exception it raises; `action` is
\* the action text a UserNotAllowed carries.
Done == [res |-> "ok", action |-> ""]
Raise(exc) == [res |-> exc, action |-> ""]
NotAllowed(action) == [res |-> "UserNotAllowed", action |-> action]

\* A handler call: the handler and its outcome.  `receiver` is the
\* receiver_id of a create_proposal request (the Proposal row does not keep
\* it), NoId for the other handlers.
Call(op, out, receiver) ==
    [op |-> op, res |-> out.res, action |-> out.action, receiver |-> receiver]

Init ==
    /\ conversations = <<>>
    /\ messages = <<>>
    /\ proposals = <<>>
    /\ paymentMethods = <<>>
    /\ billingAddresses = <<>>
    /\ orders = <<>>
    /\ cancellations = {}
    /\ sellerAccounts = {}
    /\ bankAccounts = {}
    /\ intents = <<>>
    /\ payouts = <<>>
    /\ accounts = <<>>
    /\ activations = <<>>
    /\ createdItems = <<>>
    /\ itemImages = <<>>
    /\ itemCategoryLinks = {}
    /\ confirming = [r \in Requests |-> Idle]
    /\ now = 0
    /\ last = Call("none", Done, NoId)

\* The clock advances between calls.
Tick ==
    /\ now < MaxTime
    /\ now' = now + 1
    /\ UNCHANGED <<restVars, chatVars, orderVars, payVars, last>>

\* ------------------------------------------------------------------ chat

\* ChatController.get_conversation_by_id: whether the id names a row.
ConversationExists(c) == c \in 1..Len(conversations)

\* ChatController.create_conversation: no lookup of an existing row, and
\* the table declares no uniqueness over (buyer_id, seller_id, item_id).
\* The ids are those of existing rows, so the foreign keys hold.
create_conversation(buyer, seller, item) ==
    /\ UNCHANGED <<restVars, messages, proposals, orderVars, payVars, now>>
    /\ Len(conversations) < MaxConversations
    /\ conversations' = Append(conversations,
           [buyer_id |-> buyer, seller_id |-> seller,
            item_id |-> item, updated_at |-> now])
    /\ last' = Call("create_conversation", Done, NoId)

\* send_message without the lookup of the receiver.
SendMessageOutcome_NoReceiverLookup(sender, receiver, conv, item) ==
    IF sender \notin Users THEN Raise("UserNotFoundError")
    ELSE IF conv # NoId
         THEN IF ConversationExists(conv) THEN Done
              ELSE Raise("ConversationNotFoundError")
         ELSE Raise("TypeError")

\* The outcome of ChatController.send_message before it writes anything.
\* Without a conversation_id the handler calls
\* ItemController.get_item(item_id), whose signature is
\* get_item(item_id, user_id): the call raises TypeError.
SendMessageOutcome(sender, receiver, conv, item) ==
    IF sender \notin Users \/ receiver \notin Users
    THEN Raise("UserNotFoundError")
    ELSE IF conv # NoId
         THEN IF ConversationExists(conv) THEN Done
              ELSE Raise("ConversationNotFoundError")
         ELSE Raise("TypeError")

\* ChatController.send_message.  MessageCreate requires an item_id or a
\* conversation_id.
send_message(sender, receiver, conv, item) ==
    LET out == SendMessageOutcome(sender, receiver, conv, item) IN
    /\ conv # NoId \/ item # NoId
    /\ UNCHANGED <<restVars, proposals, orderVars, payVars, now>>
    /\ last' = Call("send_message", out, NoId)
    /\ IF out.res = "ok"
       THEN /\ Len(messages) < MaxMessages
            /\ conversations' =
                   [conversations EXCEPT ![conv].updated_at = now]
            /\ messages' = Append(messages,
                   [conversation_id |-> conv, sender_id |-> sender,
                    receiver_id |-> receiver])
       ELSE UNCHANGED <<conversations, messages>>

\* The outcome of ChatController.create_proposal before it writes anything.
\* A missing conversation with an item_id leads to the same one-argument
\* get_item call as in send_message.
CreateProposalOutcome(sender, receiver, conv, item) ==
    IF sender \notin Users \/ receiver \notin Users
    THEN Raise("UserNotFoundError")
    ELSE IF ConversationExists(conv) THEN Done
    ELSE IF item = NoId THEN Raise("ConversationNotFoundError")
    ELSE Raise("TypeError")

\* The receiver_id stored on a new proposal of conversation conv; the
\* receiver of the request is not read.
ProposalReceiver_FromRequest(sender, receiver, conv) == receiver

ProposalReceiver(sender, receiver, conv) ==
    IF sender # conversations[conv].seller_id
    THEN conversations[conv].seller_id
    ELSE conversations[conv].buyer_id

\* create_proposal storing the new proposal as already accepted.
create_proposal_AsAccepted(sender, receiver, conv, item, price) ==
    LET out == CreateProposalOutcome(sender, receiver, conv, item) IN
    /\ conv # NoId \/ item # NoId
    /\ UNCHANGED <<restVars, messages, orderVars, payVars, now>>
    /\ last' = Call("create_proposal", out, receiver)
    /\ IF out.res = "ok"
       THEN /\ conversations' =
                   [conversations EXCEPT ![conv].updated_at = now]
            /\ proposals' = Append(proposals,
                   [proposed_price |-> price, sender_id |-> sender,
                    receiver_id |-> ProposalReceiver(sender, receiver, conv),
                    conversation_id |-> conv, status |-> "accepted"])
       ELSE UNCHANGED <<conversations, proposals>>

\* ChatController.create_proposal.  ProposalCreate requires an item_id or a
\* conversation_id.
create_proposal(sender, receiver, conv, item, price) ==
    LET out == CreateProposalOutcome(sender, receiver, conv, item) IN
    /\ conv # NoId \/ item # NoId
    /\ UNCHANGED <<restVars, messages, orderVars, payVars, now>>
    /\ last' = Call("create_proposal", out, receiver)
    /\ IF out.res = "ok"
       THEN /\ conversations' =
                   [conversations EXCEPT ![conv].updated_at = now]
            /\ proposals' = Append(proposals,
                   [proposed_price |-> price, sender_id |-> sender,
                    receiver_id |-> ProposalReceiver(sender, receiver, conv),
                    conversation_id |-> conv, status |-> "pending"])
       ELSE UNCHANGED <<conversations, proposals>>

\* The outcome of ChatController.accept_proposal before it writes anything.
AcceptProposalOutcome_NoSenderCheck(prop, user) ==
    IF prop \notin 1..Len(proposals) THEN Raise("ProposalNotFoundError")
    ELSE LET c == conversations[proposals[prop].conversation_id] IN
         IF c.seller_id # user /\ c.buyer_id # user
         THEN NotAllowed("accept a proposal that is not yours")
         ELSE Done

AcceptProposalOutcome(prop, user) ==
    IF prop \notin 1..Len(proposals) THEN Raise("ProposalNotFoundError")
    ELSE LET c == conversations[proposals[prop].conversation_id] IN
         IF proposals[prop].sender_id = user
         THEN NotAllowed("accept your own proposal")
         ELSE IF c.seller_id # user /\ c.buyer_id # user
              THEN NotAllowed("accept a proposal that is not yours")
              ELSE Done

\* accept_proposal leaving the updated_at of the conversation as it was.
accept_proposal_NoTouch(prop, user) ==
    LET out == AcceptProposalOutcome(prop, user) IN
    /\ UNCHANGED <<restVars, messages, orderVars, payVars, now, conversations>>
    /\ last' = Call("accept_proposal", out, NoId)
    /\ IF out.res = "ok"
       THEN proposals' = [proposals EXCEPT ![prop].status = "accepted"]
       ELSE UNCHANGED proposals

\* ChatController.accept_proposal: the current status is not read.
accept_proposal(prop, user) ==
    LET out == AcceptProposalOutcome(prop, user) IN
    /\ UNCHANGED <<restVars, messages, orderVars, payVars, now>>
    /\ last' = Call("accept_proposal", out, NoId)
    /\ IF out.res = "ok"
       THEN /\ proposals' = [proposals EXCEPT ![prop].status = "accepted"]
            /\ conversations' = [conversations EXCEPT
                   ![proposals[prop].conversation_id].updated_at = now]
       ELSE UNCHANGED <<conversations, proposals>>

\* refuse_proposal open to every user.
RefuseProposalOutcome_NoPartyCheck(prop, user) ==
    IF prop \notin 1..Len(proposals) THEN Raise("ProposalNotFoundError")
    ELSE Done

\* refuse_proposal closed to the sender of the proposal.
RefuseProposalOutcome_NotBySender(prop, user) ==
    IF prop \notin 1..Len(proposals) THEN Raise("ProposalNotFoundError")
    ELSE LET c == conversations[proposals[prop].conversation_id] IN
         IF proposals[prop].sender_id = user
            \/ (c.seller_id # user /\ c.buyer_id # user)
         THEN NotAllowed("refuse a proposal that is not yours")
         ELSE Done

\* The outcome of ChatController.refuse_proposal before it writes anything.
RefuseProposalOutcome(prop, user) ==
    IF prop \notin 1..Len(proposals) THEN Raise("ProposalNotFoundError")
    ELSE LET c == conversations[proposals[prop].conversation_id] IN
         IF c.seller_id # user /\ c.buyer_id # user
         THEN NotAllowed("refuse a proposal that is not yours")
         ELSE Done

\* ChatController.refuse_proposal: the current status is not read.
refuse_proposal(prop, user) ==
    LET out == RefuseProposalOutcome(prop, user) IN
    /\ UNCHANGED <<restVars, messages, orderVars, payVars, now>>
    /\ last' = Call("refuse_proposal", out, NoId)
    /\ IF out.res = "ok"
       THEN /\ proposals' = [proposals EXCEPT ![prop].status = "rejected"]
            /\ conversations' = [conversations EXCEPT
                   ![proposals[prop].conversation_id].updated_at = now]
       ELSE UNCHANGED <<conversations, proposals>>

\* The calls of each handler.  Conversations are opened towards the owner
\* of the item, as send_message and create_proposal are written to do.
\* The proposals table is capped where the calls are drawn.
CreateConversation ==
    \E b \in Users, i \in Items : create_conversation(b, ItemOwner(i), i)
SendMessage ==
    \E s \in UserIds, r \in UserIds, c \in 0..MaxConversations,
       i \in {NoId} \cup Items : send_message(s, r, c, i)
CreateProposal ==
    \E s \in UserIds, r \in UserIds, c \in 0..MaxConversations,
       i \in {NoId} \cup Items, p \in ProposalPrices :
           /\ create_proposal(s, r, c, i, p)
           /\ Len(proposals') <= MaxProposals
AcceptProposal == \E p \in 1..MaxProposals, u \in Users : accept_proposal(p, u)
RefuseProposal == \E p \in 1..MaxProposals, u \in Users : refuse_proposal(p, u)

\* Opening conversations, messages and proposals.
NextChat == CreateConversation \/ SendMessage \/ CreateProposal
SpecChat == Init /\ [][NextChat]_vars

\* The messages and proposals between user 2, the owner of item 1 and an
\* unknown user, in the conversations of user 2 about item 1.
ContactIds == {ItemOwner(1), 2, GhostUser}
ContactMessage ==
    \E s \in ContactIds, r \in ContactIds, c \in 0..MaxConversations,
       i \in {NoId, 1} : send_message(s, r, c, i)
ContactProposal ==
    \E s \in ContactIds, r \in ContactIds, c \in 0..MaxConversations,
       i \in {NoId, 1}, p \in ProposalPrices :
           /\ create_proposal(s, r, c, i, p)
           /\ Len(proposals') <= MaxProposals
NextContact ==
    create_conversation(2, ItemOwner(1), 1) \/ ContactMessage
        \/ ContactProposal
SpecContact == Init /\ [][NextContact]_vars

\* Negotiation: proposals and their acceptance or refusal, over time.
NextNegotiate ==
    Tick \/ CreateConversation \/ CreateProposal \/ AcceptProposal
         \/ RefuseProposal
SpecNegotiate == Init /\ [][NextNegotiate]_vars

\* Rival proposals: the buyer (user 2) and the owner of item 1 place
\* proposals at either price in their conversations, and decide on them.
RivalPrices == {950, 990}
Rivals == {ItemOwner(1), 2}
RivalProposal ==
    \E s \in Rivals, r \in Rivals, c \in 1..MaxConversations,
       p \in RivalPrices :
           /\ s # r
           /\ create_proposal(s, r, c, NoId, p)
           /\ Len(proposals') <= MaxRivalProposals
RivalAccept ==
    \E p \in 1..MaxRivalProposals, u \in Rivals : accept_proposal(p, u)
RivalRefuse ==
    \E p \in 1..MaxRivalProposals, u \in Rivals : refuse_proposal(p, u)
NextRivals ==
    create_conversation(2, ItemOwner(1), 1) \/ RivalProposal \/ RivalAccept
        \/ RivalRefuse
SpecRivals == Init /\ [][NextRivals]_vars

\* ---------------------------------------------------------------- orders

\* OrderStatus, the values the status field of an order request may carry.
OrderStatuses == {"pending", "completed", "canceled"}

\* No accepted proposal found (None).
NoPrice == 0

\* The outcome of OrderController.create_order before it writes anything.
CreateOrderOutcome_NoOwnerCheck(user, item) ==
    IF item \notin Items THEN Raise("ItemDoesNotExist") ELSE Done

CreateOrderOutcome(user, item) ==
    IF item \notin Items THEN Raise("ItemDoesNotExist")
    ELSE IF user = ItemOwner(item)
         THEN NotAllowed("Create an order for its own item")
         ELSE Done

\* OrderController._get_accepted_proposal_price: the values it may return.
\* Both queries take .first() of an unordered result: any conversation of
\* the (buyer, seller, item) triple may be the one found, and any accepted
\* proposal of that conversation.
AcceptedProposalPrices(buyer, seller, item) ==
    LET found == {c \in 1..Len(conversations) :
                     /\ conversations[c].buyer_id = buyer
                     /\ conversations[c].seller_id = seller
                     /\ conversations[c].item_id = item}
        accepted(c) == {p \in 1..Len(proposals) :
                           /\ proposals[p].conversation_id = c
                           /\ proposals[p].status = "accepted"}
    IN  IF found = {} THEN {NoPrice}
        ELSE UNION {IF accepted(c) = {} THEN {NoPrice}
                    ELSE {proposals[p].proposed_price : p \in accepted(c)}
                    : c \in found}

\* The card data and the address data an order request carries.
PaymentMethodData == {"card A", "card B"}
BillingAddressData == {"address A", "address B"}

\* OrderController._save_payment_method: the row stored for the buyer.
SavedPaymentMethod_SameCard(data, user) ==
    [user_id |-> user, data |-> "card A"]

SavedPaymentMethod(data, user) == [user_id |-> user, data |-> data]

\* OrderController._save_billing_address: the row stored for the buyer.
SavedBillingAddress(data, user) == [user_id |-> user, data |-> data]

\* OrderController.create_order.  The payment method and the billing
\* address of the request are saved, each with its own commit, before the
\* order; no step after the owner check raises.  The optional charity
\* contribution row is not part of the model.
create_order(user, item, status, payment_method, billing_address) ==
    LET out == CreateOrderOutcome(user, item) IN
    /\ UNCHANGED <<restVars, chatVars, payVars, now, cancellations>>
    /\ last' = Call("create_order", out, NoId)
    /\ IF out.res = "ok"
       THEN /\ paymentMethods' = Append(paymentMethods,
                   SavedPaymentMethod(payment_method, user))
            /\ billingAddresses' = Append(billingAddresses,
                   SavedBillingAddress(billing_address, user))
            /\ \E found \in AcceptedProposalPrices(user, ItemOwner(item), item) :
                   orders' = Append(orders,
                       [item_id |-> item, status |-> status,
                        total_price |->
                            IF found # NoPrice THEN found ELSE ItemPrice(item),
                        payment_method_id |-> Len(paymentMethods) + 1,
                        billing_address_id |-> Len(billingAddresses) + 1,
                        buyer_id |-> user, seller_id |-> ItemOwner(item),
                        payment_status |-> "pending",
                        stripe_payment_intent_id |-> NoId])
       ELSE UNCHANGED <<paymentMethods, billingAddresses, orders>>

\* The reasons a cancellation request carries.
Reasons == {"reason A", "reason B"}

\* The outcome of OrderController.cancel_order before it writes anything.
\* OrderCancellation has order_id as its primary key: the commit of a
\* second cancellation of the same order fails on the duplicate key.
CancelOrderOutcome_SellerToo(order, user) ==
    IF order \notin 1..Len(orders) THEN Raise("OrderNotFoundError")
    ELSE IF user # orders[order].buyer_id /\ user # orders[order].seller_id
    THEN NotAllowed("cancel an order for another user")
    ELSE IF \E c \in cancellations : c.order_id = order
    THEN Raise("IntegrityError")
    ELSE Done

CancelOrderOutcome(order, user) ==
    IF order \notin 1..Len(orders) THEN Raise("OrderNotFoundError")
    ELSE IF user # orders[order].buyer_id
    THEN NotAllowed("cancel an order for another user")
    ELSE IF \E c \in cancellations : c.order_id = order
    THEN Raise("IntegrityError")
    ELSE Done

\* OrderController.cancel_order: neither the status nor the payment_status
\* of the order is read.
cancel_order(order, user, reason) ==
    LET out == CancelOrderOutcome(order, user) IN
    /\ UNCHANGED <<restVars, chatVars, payVars, now, paymentMethods, billingAddresses>>
    /\ last' = Call("cancel_order", out, NoId)
    /\ IF out.res = "ok"
       THEN /\ orders' = [orders EXCEPT ![order].status = "canceled"]
            /\ cancellations' = cancellations \cup
                   {[order_id |-> order, user_id |-> user,
                     cancellation_reason |-> reason]}
       ELSE UNCHANGED <<orders, cancellations>>

CancelOrder ==
    \E o \in 1..MaxOrders, u \in Users, r \in Reasons : cancel_order(o, u, r)

CreateOrder ==
    \E u \in Users, i \in Items \cup {GhostItem}, st \in OrderStatuses,
       pm \in PaymentMethodData, ba \in BillingAddressData :
        /\ create_order(u, i, st, pm, ba)
        /\ Len(orders') <= MaxOrders

\* The create_order calls whose request leaves the status at its default
\* and carries the first card and address.
CreatePlainOrder ==
    \E u \in Users, i \in Items \cup {GhostItem} :
        /\ create_order(u, i, "pending", "card A", "address A")
        /\ Len(orders') <= MaxOrders

\* The create_proposal calls of existing users in a conversation.
ProposeInConversation ==
    \E s \in Users, r \in Users, c \in 1..MaxConversations,
       p \in ProposalPrices :
           /\ create_proposal(s, r, c, NoId, p)
           /\ Len(proposals') <= MaxProposals

\* Negotiation followed by orders.
NextOrder ==
    CreateConversation \/ ProposeInConversation \/ AcceptProposal
        \/ RefuseProposal \/ CreatePlainOrder
SpecOrder == Init /\ [][NextOrder]_vars

\* -------------------------------------------------------------- payments

\* StripeService.PLATFORM_FEE_PERCENTAGE, in percent.
PlatformFeePercentage == 5

\* The platform fee of create_payment_intent, in hundredths:
\* int(base_amount * PLATFORM_FEE_PERCENTAGE * 100).
PlatformFee(base_amount) == (base_amount * PlatformFeePercentage) \div 100

\* The calls to the payment provider that create_payment_intent makes, and
\* which of them fails, if any.
StripeFailures == {"none", "account_error", "intent_error"}

\* A seller registers a bank account (User.bank_accounts becomes
\* non-empty).
create_bank_account(user) ==
    /\ UNCHANGED <<restVars, chatVars, orderVars, sellerAccounts, intents, payouts, now>>
    /\ bankAccounts' = bankAccounts \cup {user}
    /\ last' = Call("create_bank_account", Done, NoId)

\* create_payment_intent reaching the seller account for every caller.
IntentAllowed_AnyUser(order, user) == order \in 1..Len(orders)

\* Whether create_payment_intent gets as far as the seller account of the
\* order: the order exists (OrderController.get_order) and the caller is
\* its buyer.  An order always has a payment_method_id.
IntentAllowed(order, user) ==
    /\ order \in 1..Len(orders)
    /\ user = orders[order].buyer_id

\* The outcome of PaymentController.create_payment_intent.  The amount is
\* checked after the seller account has been created and committed.
CreatePaymentIntentOutcome(order, user, stripe) ==
    IF order \notin 1..Len(orders) THEN Raise("OrderNotFoundError")
    ELSE IF user # orders[order].buyer_id
    THEN NotAllowed("Create a payment intent for an order that is not yours")
    ELSE IF orders[order].seller_id \notin sellerAccounts
            /\ stripe = "account_error"
    THEN Raise("PaymentIntentCreationError")
    ELSE IF orders[order].total_price <= 0
    THEN Raise("InvalidPaymentAmountError")
    ELSE IF stripe = "intent_error" THEN Raise("PaymentIntentCreationError")
    ELSE Done

\* PaymentController.create_payment_intent -> StripeService
\* .create_payment_intent.  The metadata of the intent carries the order,
\* str(base_amount) and str(platform_fee / 100); float(str(x)) = x, so the
\* two amounts are kept here as the hundredths they stand for.
create_payment_intent(order, user, stripe) ==
    LET out == CreatePaymentIntentOutcome(order, user, stripe) IN
    /\ UNCHANGED <<restVars, chatVars, orderVars, bankAccounts, payouts, now>>
    /\ last' = Call("create_payment_intent", out, NoId)
    /\ sellerAccounts' =
           IF IntentAllowed(order, user) /\ stripe # "account_error"
           THEN sellerAccounts \cup {orders[order].seller_id}
           ELSE sellerAccounts
    /\ IF out.res = "ok"
       THEN /\ Len(intents) < MaxIntents
            /\ intents' = Append(intents,
                   [order_id |-> order,
                    base_amount |-> orders[order].total_price,
                    platform_fee |-> PlatformFee(orders[order].total_price),
                    status |-> "requires_payment_method"])
       ELSE UNCHANGED intents

\* The payment provider collects the payment of an intent.
PaymentSucceeds(k) ==
    /\ k \in 1..Len(intents)
    /\ intents[k].status # "succeeded"
    /\ intents' = [intents EXCEPT ![k].status = "succeeded"]
    /\ UNCHANGED <<restVars, chatVars, orderVars, sellerAccounts, bankAccounts, payouts,
                   now, last>>

\* confirm_payment recording every succeeded intent, paid order or not.
RecordsPayment_IgnoresPaid(k) == intents[k].status = "succeeded"

\* Whether confirm_payment records the payment of intent k.
RecordsPayment(k) ==
    /\ orders[intents[k].order_id].payment_status # "paid"
    /\ intents[k].status = "succeeded"

\* The outcome of StripeService.confirm_payment.  An unknown intent id is a
\* StripeError of the retrieval; order.seller.bank_accounts[0] raises
\* IndexError for a seller without a bank account, which the handler does
\* not catch.
ConfirmPaymentOutcome(k) ==
    IF k \notin 1..Len(intents) THEN Raise("PaymentIntentConfirmationError")
    ELSE IF RecordsPayment(k)
            /\ orders[intents[k].order_id].seller_id \notin bankAccounts
    THEN Raise("IndexError")
    ELSE Done

\* The Payout row of intent k (the bank account it names is the first one
\* of the seller).
PayoutOf_GrossToSeller(k) ==
    [order_id |-> intents[k].order_id,
     seller_id |-> orders[intents[k].order_id].seller_id,
     base_amount |-> intents[k].base_amount,
     platform_fee |-> intents[k].platform_fee,
     seller_amount |-> intents[k].base_amount,
     status |-> "completed",
     stripe_payment_intent_id |-> k]

PayoutOf(k) ==
    [order_id |-> intents[k].order_id,
     seller_id |-> orders[intents[k].order_id].seller_id,
     base_amount |-> intents[k].base_amount,
     platform_fee |-> intents[k].platform_fee,
     seller_amount |-> intents[k].base_amount - intents[k].platform_fee,
     status |-> "completed",
     stripe_payment_intent_id |-> k]

\* The Payout table after confirm_payment has recorded intent k.
PayoutsRecorded_None(k) == payouts

PayoutsRecorded(k) == Append(payouts, PayoutOf(k))

\* StripeService.confirm_payment: the order and its payout are committed
\* together.
confirm_payment(k) ==
    LET out == ConfirmPaymentOutcome(k) IN
    /\ UNCHANGED <<restVars, chatVars, paymentMethods, billingAddresses, cancellations,
                   sellerAccounts, bankAccounts, intents, now>>
    /\ last' = Call("confirm_payment", out, NoId)
    /\ IF out.res = "ok" /\ RecordsPayment(k)
       THEN /\ orders' = [orders EXCEPT
                   ![intents[k].order_id].payment_status = "paid",
                   ![intents[k].order_id].stripe_payment_intent_id = k]
            /\ payouts' = PayoutsRecorded(k)
       ELSE UNCHANGED <<orders, payouts>>

\* PaymentController.confirm_payment_intent passes (payment_intent_id,
\* current_user) to StripeService.confirm_payment(payment_intent_id): the
\* call raises TypeError.
confirm_payment_intent(k, user) ==
    /\ UNCHANGED <<restVars, chatVars, orderVars, payVars, now>>
    /\ last' = Call("confirm_payment_intent", Raise("TypeError"), NoId)

CreateBankAccount == \E i \in Items : create_bank_account(ItemOwner(i))
CreatePaymentIntent ==
    \E o \in 1..MaxOrders, u \in Users, f \in StripeFailures :
        create_payment_intent(o, u, f)
ProviderStep == \E k \in 1..MaxIntents : PaymentSucceeds(k)
ConfirmPayment == \E k \in 1..MaxIntents + 1 : confirm_payment(k)
ConfirmPaymentIntent ==
    \E k \in 1..MaxIntents, u \in Users : confirm_payment_intent(k, u)

\* One negotiation: user 3 asks the owner of item 1 for 9.90, who accepts.
NegotiateOnce ==
    \/ create_conversation(3, ItemOwner(1), 1)
    \/ \E p \in ProposalPrices :
           /\ create_proposal(3, ItemOwner(1), 1, NoId, p)
           /\ Len(proposals') <= MaxProposals
    \/ accept_proposal(1, ItemOwner(1))

\* Orders and their payment.
NextPay ==
    NegotiateOnce \/ CreatePlainOrder \/ CreateBankAccount
        \/ CreatePaymentIntent
        \/ ProviderStep \/ ConfirmPayment \/ ConfirmPaymentIntent
SpecPay == Init /\ [][NextPay]_vars

\* confirm_payment as the steps of one request r, between which other
\* requests run: each request has its own database session, and the
\* handler gives way at the await of its select and at the await of its
\* commit.

\* The request retrieves intent k from the provider and reads the order:
\* stripe_service.py lines 505-509.
confirm_read(r, k) ==
    /\ confirming[r].pc = "idle"
    /\ IF k \in DOMAIN intents
       THEN /\ confirming' = [confirming EXCEPT ![r] =
                   [pc |-> "read", intent |-> k,
                    paid |-> orders[intents[k].order_id].payment_status
                                 = "paid",
                    succeeded |-> intents[k].status = "succeeded"]]
            /\ UNCHANGED last
       ELSE /\ last' = Call("confirm_payment",
                            Raise("PaymentIntentConfirmationError"), NoId)
            /\ UNCHANGED confirming
    /\ UNCHANGED <<userVars, itemVars, chatVars, orderVars, payVars, now>>

\* Whether request r records the payment, by what it has read.
RequestRecords(r) == ~confirming[r].paid /\ confirming[r].succeeded

\* The request decides on what it has read and commits: lines 511-531.
\* The commit updates the order by its id and inserts the payout; it does
\* not read the order again.
confirm_write(r) ==
    LET k == confirming[r].intent
        o == intents[k].order_id
        out == IF RequestRecords(r) /\ orders[o].seller_id \notin bankAccounts
               THEN Raise("IndexError") ELSE Done
    IN /\ confirming[r].pc = "read"
       /\ confirming' = [confirming EXCEPT ![r] = Idle]
       /\ last' = Call("confirm_payment", out, NoId)
       /\ IF out.res = "ok" /\ RequestRecords(r)
          THEN /\ orders' = [orders EXCEPT
                      ![o].payment_status = "paid",
                      ![o].stripe_payment_intent_id = k]
               /\ payouts' = PayoutsRecorded(k)
          ELSE UNCHANGED <<orders, payouts>>
       /\ UNCHANGED <<userVars, itemVars, chatVars, paymentMethods,
                      billingAddresses, cancellations, sellerAccounts,
                      bankAccounts, intents, now>>

ConfirmRead ==
    \E r \in Requests, k \in 1..MaxIntents + 1 : confirm_read(r, k)
ConfirmWrite == \E r \in Requests : confirm_write(r)

\* Concurrent confirmations of the payment of one order.
NextRace ==
    \/ /\ create_order(2, 1, "pending", "card A", "address A")
       /\ Len(orders') <= MaxOrders
    \/ create_bank_account(ItemOwner(1))
    \/ create_payment_intent(1, 2, "none")
    \/ ProviderStep
    \/ ConfirmRead
    \/ ConfirmWrite
SpecRace == Init /\ [][NextRace]_vars

\* Two buyers and one item: users 2 and 3 order item 1 and pay.
Buyers == {2, 3}
ResaleOrder ==
    \E u \in Buyers :
        /\ create_order(u, 1, "pending", "card A", "address A")
        /\ Len(orders') <= MaxResoldOrders
ResaleIntent ==
    \E o \in 1..MaxResoldOrders, u \in Buyers :
        create_payment_intent(o, u, "none")
NextResale ==
    ResaleOrder \/ create_bank_account(ItemOwner(1)) \/ ResaleIntent
        \/ ProviderStep \/ ConfirmPayment
SpecResale == Init /\ [][NextResale]_vars

\* Orders that are cancelled and paid, in either order.
NextCancelPay ==
    CreatePlainOrder \/ CancelOrder \/ CreateBankAccount
        \/ CreatePaymentIntent \/ ProviderStep \/ ConfirmPayment
SpecCancelPay == Init /\ [][NextCancelPay]_vars

\* Orders of every request, after one negotiation.
NextCheckout == NegotiateOnce \/ CreateOrder \/ CancelOrder
SpecCheckout == Init /\ [][NextCheckout]_vars

\* ------------------------------------------------------- user accounts
\* Registration and activation.  The Users above are accounts activated
\* before the modelled activity; the accounts registered during it are the
\* rows of `accounts`, with ids of their own (positions in the table).

\* The accounts registered during the modelled activity.
MaxAccounts == 2

\* The request data of a registration: email addresses, passwords, and the
\* keys generate_activation_key can draw.
Emails == {"a@rizana.ae", "b@rizana.ae"}
Passwords == {"secret", "guess"}
ActivationKeys == {"11111", "22222"}
AccountIds == 1..MaxAccounts

\* PasswordHasher.hash and PasswordHasher.verify: a hash is not the
\* password, and verification accepts only the hash of the same password.
Hash(password) == <<"argon2", password>>
Verifies(password, hashed) == hashed = Hash(password)

\* The rows the queries of get_user select (email is unique).
AccountById(id) == {a \in DOMAIN accounts : a = id}
AccountByEmail(email) == {a \in DOMAIN accounts : accounts[a].email = email}

\* The EmailActivation rows of a user with the given key.
ActivationsOf(user, key) ==
    {e \in DOMAIN activations :
        /\ activations[e].user_id = user
        /\ activations[e].activation_key = key}

\* An activation key lives thirty minutes; a step of the clock stands for a
\* longer period, so a key is expired once the clock has moved.
Expired(created_at) == created_at < now

GetUserOutcome_NoActiveCheck(rows) ==
    IF rows = {} THEN Raise("UserNotFoundError") ELSE Done

\* The outcome of get_user on the rows its query selects.
GetUserOutcome(rows) ==
    IF rows = {} THEN Raise("UserNotFoundError")
    ELSE IF accounts[CHOOSE a \in rows : TRUE].is_active THEN Done
    ELSE Raise("UserIsInactive")

\* UserController.get_user by id.
get_user(user) ==
    /\ last' = Call("get_user", GetUserOutcome(AccountById(user)), NoId)
    /\ UNCHANGED <<restVars, chatVars, orderVars, payVars, now>>

\* UserController.create_user.  The activation email is sent after both
\* rows are committed.
create_user(email, password, key) ==
    /\ Len(accounts) < MaxAccounts
    /\ LET out == IF AccountByEmail(email) # {}
                  THEN Raise("UserAlreadyExistsError") ELSE Done
       IN /\ last' = Call("create_user", out, NoId)
          /\ IF out.res = "ok"
             THEN /\ accounts' = Append(accounts,
                        [email |-> email, password |-> Hash(password),
                         is_active |-> FALSE])
                  /\ activations' = Append(activations,
                        [user_id |-> Len(accounts) + 1,
                         activation_key |-> key, created_at |-> now,
                         is_activated |-> FALSE])
             ELSE UNCHANGED <<accounts, activations>>
    /\ UNCHANGED <<itemVars, confirming, chatVars, orderVars, payVars, now>>

\* The outcome of _authenticate_user.
AuthenticateOutcome(email, password) ==
    LET rows == AccountByEmail(email)
        found == GetUserOutcome(rows)
    IN IF found.res = "UserNotFoundError"
       THEN Raise("EmailNotRecognizedError")
       ELSE IF found.res # "ok" THEN found
       ELSE IF ~Verifies(password, accounts[CHOOSE a \in rows : TRUE].password)
       THEN Raise("WrongPasswordError")
       ELSE Done

\* UserController.login_user.
login_user(email, password) ==
    /\ last' = Call("login_user", AuthenticateOutcome(email, password), NoId)
    /\ UNCHANGED <<restVars, chatVars, orderVars, payVars, now>>

\* The outcome of _check_activation_key.
CheckActivationKeyOutcome(user, key) ==
    LET rows == ActivationsOf(user, key)
    IN IF rows = {} THEN Raise("ActivationKeyIncorrect")
       ELSE LET e == CHOOSE r \in rows : TRUE
            IN IF activations[e].is_activated
               THEN Raise("AccountAlreadyActivated")
               ELSE IF Expired(activations[e].created_at)
               THEN Raise("ActivationKeyExpired")
               ELSE Done

\* The outcome of activate_user: get_inactive_user, then the key check.
ActivateUserOutcome(user, token) ==
    IF \/ AccountById(user) = {}
       \/ accounts[user].is_active
    THEN Raise("UserNotFoundError")
    ELSE CheckActivationKeyOutcome(user, token)

\* UserController.activate_user.
activate_user(user, token) ==
    /\ LET out == ActivateUserOutcome(user, token)
       IN /\ last' = Call("activate_user", out, NoId)
          /\ IF out.res = "ok"
             THEN /\ activations' =
                        [e \in DOMAIN activations |->
                            IF e \in ActivationsOf(user, token)
                            THEN [activations[e] EXCEPT !.is_activated = TRUE]
                            ELSE activations[e]]
                  /\ accounts' = [accounts EXCEPT ![user].is_active = TRUE]
             ELSE UNCHANGED <<accounts, activations>>
    /\ UNCHANGED <<itemVars, confirming, chatVars, orderVars, payVars, now>>

\* The calls of each handler, over the request values of the model.
GetUser == \E u \in AccountIds : get_user(u)
CreateUser ==
    \E e \in Emails, p \in Passwords, k \in ActivationKeys :
        create_user(e, p, k)
LoginUser == \E e \in Emails, p \in Passwords : login_user(e, p)
ActivateUser ==
    \E u \in AccountIds, k \in ActivationKeys : activate_user(u, k)

\* Registration, activation and login.
NextAccounts == Tick \/ CreateUser \/ GetUser \/ LoginUser \/ ActivateUser
SpecAccounts == Init /\ [][NextAccounts]_vars

\* ---------------------------------------------------------------- items
\* The Items above are listed before the modelled activity; the items
\* created during it are the rows of createdItems.

\* The items created during the modelled activity.
MaxCreatedItems == 2

\* The categories that exist, and the image and category lists a request
\* carries ("ghost" names no category).
KnownCategories == {"clothes", "shoes"}
ImageLists == {<<>>, <<"image A">>}
CategoryLists ==
    {<<>>, <<"clothes">>, <<"ghost">>, <<"clothes", "ghost">>,
     <<"clothes", "shoes">>}

\* The elements of a sequence.
Range(seq) == {seq[n] : n \in DOMAIN seq}

\* The outcome of ItemController.create_item: get_category raises for the
\* first name that no category has.
CreateItemOutcome(categories) ==
    IF Range(categories) \subseteq KnownCategories THEN Done
    ELSE Raise("CategoryDoesNotExist")

\* ItemController.create_item, called for the current user.  The item is
\* committed before the categories are looked up; the images and links
\* added before the failing lookup are rolled back.
create_item(user, images, categories) ==
    LET out == CreateItemOutcome(categories)
        item == Len(createdItems) + 1
    IN /\ last' = Call("create_item", out, NoId)
       /\ createdItems' = Append(createdItems, [user_id |-> user])
       /\ IF out.res = "ok"
          THEN /\ itemImages' = itemImages \o
                      [n \in DOMAIN images |->
                          [item_id |-> item, url |-> images[n]]]
               /\ itemCategoryLinks' = itemCategoryLinks \cup
                      {[item_id |-> item, category |-> c] :
                          c \in Range(categories)}
          ELSE UNCHANGED <<itemImages, itemCategoryLinks>>
       /\ UNCHANGED <<userVars, confirming, chatVars, orderVars, payVars, now>>

CreateItem ==
    \E u \in Users, im \in ImageLists, ca \in CategoryLists :
        /\ create_item(u, im, ca)
        /\ Len(createdItems') <= MaxCreatedItems

\* Listing items.
NextItems == CreateItem
SpecItems == Init /\ [][NextItems]_vars

\* Every handler of the model.
Next ==
    Tick \/ CreateConversation \/ SendMessage \/ CreateProposal
         \/ AcceptProposal \/ RefuseProposal \/ CreateOrder \/ CancelOrder
         \/ CreateBankAccount \/ CreatePaymentIntent \/ ProviderStep
         \/ ConfirmPayment \/ ConfirmPaymentIntent
         \/ CreateUser \/ GetUser \/ LoginUser \/ ActivateUser
         \/ CreateItem \/ ConfirmRead \/ ConfirmWrite
Spec == Init /\ [][Next]_vars

\* ------------------------------------------------- properties of the chat

\* The conversations of one (buyer, seller, item) triple.
ConversationsOf(buyer, seller, item) ==
    {c \in 1..Len(conversations) :
        /\ conversations[c].buyer_id = buyer
        /\ conversations[c].seller_id = seller
        /\ conversations[c].item_id = item}

\* C2: after any sequence of create_conversation, send_message and
\* create_proposal calls there is at most one conversation for a given
\* (buyer_id, seller_id, item_id) triple.
C2_OneConversationPerTriple ==
    \A b \in Users, i \in Items :
        Cardinality(ConversationsOf(b, ItemOwner(i), i)) <= 1

\* C10: a send_message or create_proposal call that names an item without
\* a conversation (and no conversation_id) creates exactly one
\* conversation, whose seller is the owner of the item and whose buyer is
\* the sender when the sender is not the owner and the receiver of the
\* request otherwise; the new message or proposal belongs to it.
C10_ConversationCreatedOnFirstContact ==
    [][\A s \in Users, r \in Users, i \in Items :
        LET NoneYet ==
                \A c \in 1..Len(conversations) : conversations[c].item_id # i
            Created ==
                /\ Len(conversations') = Len(conversations) + 1
                /\ conversations'[Len(conversations')].seller_id = ItemOwner(i)
                /\ conversations'[Len(conversations')].buyer_id =
                       (IF s # ItemOwner(i) THEN s ELSE r)
                /\ conversations'[Len(conversations')].item_id = i
        IN  /\ (NoneYet /\ Len(messages) < MaxMessages
                        /\ send_message(s, r, NoId, i))
                => /\ Created
                   /\ Len(messages') = Len(messages) + 1
                   /\ messages'[Len(messages')].conversation_id =
                          Len(conversations')
            /\ (NoneYet /\ Len(proposals) < MaxProposals
                        /\ \E p \in ProposalPrices :
                               create_proposal(s, r, NoId, i, p))
                => /\ Created
                   /\ Len(proposals') = Len(proposals) + 1
                   /\ proposals'[Len(proposals')].conversation_id =
                          Len(conversations')
      ]_vars

\* C4: accept_proposal called by the sender of the proposal fails with
\* UserNotAllowed and leaves the status of the proposal and the updated_at
\* of its conversation as they were.
C4_SenderCannotAccept ==
    [][\A p \in 1..MaxProposals, u \in Users :
        (/\ p <= Len(proposals)
         /\ proposals[p].sender_id = u
         /\ accept_proposal(p, u))
        => /\ last'.res = "UserNotAllowed"
           /\ proposals'[p].status = proposals[p].status
           /\ conversations'[proposals[p].conversation_id].updated_at =
                  conversations[proposals[p].conversation_id].updated_at
      ]_vars

\* C4, its case: the sender of a proposal has just been refused the
\* acceptance of it, at a time later than the last update of the
\* conversation.
C4_Witness ==
    /\ last.op = "accept_proposal"
    /\ last.action = "accept your own proposal"
    /\ \E p \in 1..Len(proposals) :
           /\ proposals[p].status = "pending"
           /\ conversations[proposals[p].conversation_id].updated_at < now

\* C5: an accepted or rejected proposal keeps its status whatever
\* accept_proposal or refuse_proposal call follows.
C5_DecidedStatusIsFinal ==
    [][\A p \in 1..Len(proposals) :
        proposals[p].status \in {"accepted", "rejected"}
        => proposals'[p].status = proposals[p].status
      ]_vars

\* C6: every proposal has as receiver_id the seller of its conversation
\* when its sender is not that seller, and the buyer of the conversation
\* otherwise, whatever receiver_id the request carried.
C6_ReceiverInferred ==
    \A p \in 1..Len(proposals) :
        LET c == conversations[proposals[p].conversation_id] IN
        proposals[p].receiver_id =
            (IF proposals[p].sender_id # c.seller_id
             THEN c.seller_id ELSE c.buyer_id)

\* C6, its case: a proposal has just been created from a request whose
\* receiver_id is not the one stored.
C6_Witness ==
    /\ last.op = "create_proposal"
    /\ last.res = "ok"
    /\ Len(proposals) > 0
    /\ last.receiver # proposals[Len(proposals)].receiver_id

\* ----------------------------------------- properties of orders, payments

\* C1: the total_price of a new order is the price of an accepted proposal
\* of the conversation of (buyer, owner of the item, item) when there is
\* one, and the list price of the item otherwise (no conversation, only
\* pending or rejected proposals, or an accepted proposal in the
\* conversation of another buyer).
C1_OrderPriceFromAcceptedProposal ==
    [][\A u \in Users, i \in Items, st \in OrderStatuses,
          pm \in PaymentMethodData, ba \in BillingAddressData :
        LET accepted == {p \in 1..Len(proposals) :
                /\ proposals[p].status = "accepted"
                /\ proposals[p].conversation_id
                       \in ConversationsOf(u, ItemOwner(i), i)}
        IN  (create_order(u, i, st, pm, ba) /\ last'.res = "ok")
            => orders'[Len(orders')].total_price \in
                   (IF accepted # {}
                    THEN {proposals[p].proposed_price : p \in accepted}
                    ELSE {ItemPrice(i)})
      ]_vars

\* C3: create_order called by the owner of the item fails with
\* UserNotAllowed and creates no order, payment method or billing address;
\* no order has the same user as buyer and seller.
C3_OwnerCannotOrder ==
    /\ [][\A i \in Items, st \in OrderStatuses,
             pm \in PaymentMethodData, ba \in BillingAddressData :
            create_order(ItemOwner(i), i, st, pm, ba)
            => /\ last'.res = "UserNotAllowed"
               /\ UNCHANGED <<orders, paymentMethods, billingAddresses>>
         ]_vars
    /\ [](\A o \in 1..Len(orders) : orders[o].buyer_id # orders[o].seller_id)

\* C3, its case: an owner has just been refused an order of their own
\* item, while the order table had room for it.
C3_Witness ==
    /\ last.op = "create_order"
    /\ last.action = "Create an order for its own item"
    /\ Len(orders) < MaxOrders
    /\ Len(paymentMethods) = 0
    /\ Len(billingAddresses) = 0

\* C7: confirming a succeeded intent whose order is not yet paid sets the
\* payment_status of the order to paid, records the id of the intent on the
\* order and creates a payout for the seller of the order; confirming an
\* intent that has not succeeded leaves the order and the payouts as they
\* were.
C7_ConfirmRecordsPayment ==
    [][\A k \in 1..MaxIntents, u \in Users :
        LET o == intents[k].order_id IN
        (k <= Len(intents) /\ (confirm_payment(k) \/ confirm_payment_intent(k, u)))
        => IF intents[k].status = "succeeded"
           THEN orders[o].payment_status # "paid"
                => /\ orders'[o].payment_status = "paid"
                   /\ orders'[o].stripe_payment_intent_id = k
                   /\ Len(payouts') = Len(payouts) + 1
                   /\ payouts'[Len(payouts')].order_id = o
                   /\ payouts'[Len(payouts')].seller_id = orders[o].seller_id
           ELSE UNCHANGED <<orders, payouts>>
      ]_vars

\* C8: an order has a payout exactly when its payment_status is paid.
C8_PayoutIffPaid ==
    \A o \in 1..Len(orders) :
        (\E p \in 1..Len(payouts) : payouts[p].order_id = o)
        <=> orders[o].payment_status = "paid"

\* C8, its case: a confirmation has just recorded the payment of an order,
\* which is paid and has its payout.
C8_Witness ==
    /\ last.op = "confirm_payment"
    /\ last.res = "ok"
    /\ \E o \in 1..Len(orders) :
           /\ orders[o].payment_status = "paid"
           /\ \E p \in 1..Len(payouts) : payouts[p].order_id = o

\* C9: the base_amount of a payout is the total_price of its order, its
\* platform_fee is the 5% fee computed when the intent was created, and its
\* seller_amount is the base_amount minus the platform_fee.
C9_PayoutAmounts ==
    \A p \in 1..Len(payouts) :
        LET total == orders[payouts[p].order_id].total_price
            fee == (total * 5) \div 100
        IN  /\ payouts[p].base_amount = total
            /\ payouts[p].platform_fee = fee
            /\ payouts[p].platform_fee =
                   intents[payouts[p].stripe_payment_intent_id].platform_fee
            /\ payouts[p].seller_amount = total - fee

\* C9, its case: the payout of an order made at the negotiated 9.90, with
\* a fee of 0.49 and 9.41 for the seller.
C9_Witness ==
    \E p \in 1..Len(payouts) :
        /\ payouts[p].base_amount = 990
        /\ payouts[p].platform_fee = 49
        /\ payouts[p].seller_amount = 941

\* ProposalStatus, the values of the status of a proposal.
ProposalStatuses == {"pending", "accepted", "rejected"}

\* C11: a proposal is created with status pending, the status of every
\* proposal is pending, accepted or rejected, and the status of a proposal
\* changes only by an accept_proposal or a refuse_proposal call on it.
C11_ProposalStatus ==
    /\ [](\A p \in 1..Len(proposals) : proposals[p].status \in ProposalStatuses)
    /\ [][/\ \A p \in 1..Len(proposals') :
                p > Len(proposals) => proposals'[p].status = "pending"
          /\ \A p \in 1..Len(proposals) :
                proposals'[p].status # proposals[p].status
                => \E u \in Users : accept_proposal(p, u) \/ refuse_proposal(p, u)
         ]_vars

\* C11, its case: a proposal has just been created, and is pending.
C11_Witness ==
    /\ last.op = "create_proposal"
    /\ last.res = "ok"
    /\ Len(proposals) > 0
    /\ proposals[Len(proposals)].status = "pending"

\* C12: a successful create_order stores one new payment method and one
\* new billing address, both owned by the buyer and holding the data of
\* the request, and the new order references these two rows.
C12_OrderSnapshots ==
    [][\A u \in Users, i \in Items, st \in OrderStatuses,
          pm \in PaymentMethodData, ba \in BillingAddressData :
        (create_order(u, i, st, pm, ba) /\ last'.res = "ok")
        => /\ Len(paymentMethods') = Len(paymentMethods) + 1
           /\ Len(billingAddresses') = Len(billingAddresses) + 1
           /\ \A k \in 1..Len(paymentMethods) :
                  paymentMethods'[k] = paymentMethods[k]
           /\ \A k \in 1..Len(billingAddresses) :
                  billingAddresses'[k] = billingAddresses[k]
           /\ paymentMethods'[Len(paymentMethods')] =
                  [user_id |-> u, data |-> pm]
           /\ billingAddresses'[Len(billingAddresses')] =
                  [user_id |-> u, data |-> ba]
           /\ Len(orders') = Len(orders) + 1
           /\ orders'[Len(orders')].payment_method_id = Len(paymentMethods')
           /\ orders'[Len(orders')].billing_address_id = Len(billingAddresses')
      ]_vars

\* C12, its case: an order has just been created with the second card and
\* the second address of the request data.
C12_Witness ==
    /\ last.op = "create_order"
    /\ last.res = "ok"
    /\ Len(orders) > 0
    /\ paymentMethods[orders[Len(orders)].payment_method_id].data = "card B"
    /\ billingAddresses[orders[Len(orders)].billing_address_id].data =
           "address B"

\* The conversation of proposal p.
ConversationOf(p) == conversations[proposals[p].conversation_id]

\* Whether user u is the buyer or the seller of the conversation of p.
IsParty(p, u) == u \in {ConversationOf(p).buyer_id, ConversationOf(p).seller_id}

\* C13: accept_proposal and refuse_proposal called by a user who is neither
\* the buyer nor the seller of the conversation of the proposal fail with
\* UserNotAllowed and leave the status of the proposal and the conversation
\* as they were.
C13_OutsiderCannotDecide ==
    [][\A p \in 1..MaxProposals, u \in Users :
        (/\ p <= Len(proposals)
         /\ ~IsParty(p, u)
         /\ (accept_proposal(p, u) \/ refuse_proposal(p, u)))
        => /\ last'.res = "UserNotAllowed"
           /\ proposals'[p].status = proposals[p].status
           /\ conversations'[proposals[p].conversation_id] = ConversationOf(p)
      ]_vars

\* C13, its case: a user outside the conversation has just been refused
\* the acceptance of a proposal, at a time later than the last update of
\* the conversation.
C13_Witness ==
    /\ last.op = "accept_proposal"
    /\ last.action = "accept a proposal that is not yours"
    /\ \E p \in 1..Len(proposals) :
           /\ proposals[p].status = "pending"
           /\ ConversationOf(p).updated_at < now

\* C14: accept_proposal called on an existing proposal by the party of its
\* conversation that did not send it sets the status of the proposal to
\* accepted and the updated_at of the conversation to the time of the call.
C14_AcceptByOtherParty ==
    [][\A p \in 1..MaxProposals, u \in Users :
        (/\ p <= Len(proposals)
         /\ IsParty(p, u)
         /\ u # proposals[p].sender_id
         /\ accept_proposal(p, u))
        => /\ last'.res = "ok"
           /\ proposals'[p].status = "accepted"
           /\ conversations'[proposals[p].conversation_id].updated_at = now
      ]_vars

\* C14, its case: a proposal has just been accepted at a time later than
\* 0, which is the updated_at of its conversation.
C14_Witness ==
    /\ last.op = "accept_proposal"
    /\ last.res = "ok"
    /\ now > 0
    /\ \E p \in 1..Len(proposals) :
           /\ proposals[p].status = "accepted"
           /\ ConversationOf(p).updated_at = now

\* C15: refuse_proposal called on an existing proposal by the buyer or the
\* seller of its conversation sets the status of the proposal to rejected
\* and the updated_at of the conversation to the time of the call.
C15_RefuseByParty ==
    [][\A p \in 1..MaxProposals, u \in Users :
        (/\ p <= Len(proposals)
         /\ IsParty(p, u)
         /\ refuse_proposal(p, u))
        => /\ last'.res = "ok"
           /\ proposals'[p].status = "rejected"
           /\ conversations'[proposals[p].conversation_id].updated_at = now
      ]_vars

\* C15, its case: a proposal has just been refused at a time later than 0,
\* which is the updated_at of its conversation.
C15_Witness ==
    /\ last.op = "refuse_proposal"
    /\ last.res = "ok"
    /\ now > 0
    /\ \E p \in 1..Len(proposals) :
           /\ proposals[p].status = "rejected"
           /\ ConversationOf(p).updated_at = now

\* The cancellations recorded for order o.
CancellationsOf(o) == {c \in cancellations : c.order_id = o}

\* C16: cancel_order called by the buyer of the order sets the status of
\* the order to canceled and records exactly one cancellation for that
\* order, carrying the id of the caller and the given reason.
C16_BuyerCancels ==
    [][\A o \in 1..MaxOrders, u \in Users, r \in Reasons :
        (/\ o <= Len(orders)
         /\ u = orders[o].buyer_id
         /\ cancel_order(o, u, r))
        => /\ orders'[o].status = "canceled"
           /\ {c \in cancellations' : c.order_id = o} =
                  {[order_id |-> o, user_id |-> u, cancellation_reason |-> r]}
      ]_vars

\* C17: cancel_order called by a user other than the buyer of the order,
\* the seller included, fails with UserNotAllowed, leaves the status of the
\* order as it was and creates no cancellation.
C17_OnlyBuyerCancels ==
    [][\A o \in 1..MaxOrders, u \in Users, r \in Reasons :
        (/\ o <= Len(orders)
         /\ u # orders[o].buyer_id
         /\ cancel_order(o, u, r))
        => /\ last'.res = "UserNotAllowed"
           /\ orders'[o].status = orders[o].status
           /\ cancellations' = cancellations
      ]_vars

\* C17, its case: a user other than the buyer has just been refused the
\* cancellation of an order, while a pending order has no cancellation.
C17_Witness ==
    /\ last.op = "cancel_order"
    /\ last.action = "cancel an order for another user"
    /\ \E o \in 1..Len(orders) :
           /\ orders[o].status = "pending"
           /\ CancellationsOf(o) = {}

\* C18: a send_message or create_proposal call whose sender or receiver
\* does not exist fails with UserNotFoundError, and one whose
\* conversation_id names no conversation (for create_proposal: with no
\* item_id) fails with ConversationNotFoundError; such a call creates no
\* conversation, message or proposal and leaves the conversations as they
\* were.
C18_FailedChatCallChangesNothing ==
    [][\A s \in UserIds, r \in UserIds, c \in 0..MaxConversations,
          i \in {NoId} \cup Items :
        LET NoUser == s \notin Users \/ r \notin Users
            NoConversation == c # NoId /\ c \notin 1..Len(conversations)
            Expected == IF NoUser THEN "UserNotFoundError"
                        ELSE "ConversationNotFoundError"
        IN  /\ ((NoUser \/ NoConversation) /\ send_message(s, r, c, i))
                => /\ last'.res = Expected
                   /\ UNCHANGED <<conversations, messages, proposals>>
            /\ ((NoUser \/ (NoConversation /\ i = NoId))
                    /\ \E p \in ProposalPrices : create_proposal(s, r, c, i, p))
                => /\ last'.res = Expected
                   /\ UNCHANGED <<conversations, messages, proposals>>
      ]_vars

\* C18, its case: a message for a conversation that does not exist has just
\* been refused, while there is a conversation and room for a message.
C18_Witness ==
    /\ last.op = "send_message"
    /\ last.res = "ConversationNotFoundError"
    /\ Len(conversations) = 1
    /\ Len(messages) < MaxMessages

\* C19: every order created by create_order has status pending and
\* payment_status pending, the caller as buyer_id and the owner of the
\* ordered item as seller_id.
C19_NewOrderDefaults ==
    [][\A u \in Users, i \in Items, st \in OrderStatuses,
          pm \in PaymentMethodData, ba \in BillingAddressData :
        (create_order(u, i, st, pm, ba) /\ last'.res = "ok")
        => /\ orders'[Len(orders')].status = "pending"
           /\ orders'[Len(orders')].payment_status = "pending"
           /\ orders'[Len(orders')].buyer_id = u
           /\ orders'[Len(orders')].seller_id = ItemOwner(i)
      ]_vars

\* ------------------------------------------------ properties of accounts

\* C20: a newly created user is inactive; get_user and login_user fail with
\* UserIsInactive for an inactive user, who becomes active only by an
\* activate_user call that succeeds with the user's activation key; for an
\* active user get_user and login_user (with the user's password) succeed,
\* and no operation makes an active user inactive again.
C20_InactiveUntilActivated ==
    [][/\ \A e \in Emails, p \in Passwords, k \in ActivationKeys :
            (create_user(e, p, k) /\ last'.res = "ok")
                => /\ Len(accounts') = Len(accounts) + 1
                   /\ ~accounts'[Len(accounts')].is_active
       /\ \A u \in DOMAIN accounts :
            /\ ~accounts[u].is_active =>
                 /\ get_user(u) => last'.res = "UserIsInactive"
                 /\ \A p \in Passwords :
                        login_user(accounts[u].email, p)
                            => last'.res = "UserIsInactive"
                 /\ accounts'[u].is_active =>
                        \E k \in ActivationKeys :
                            /\ ActivationsOf(u, k) # {}
                            /\ activate_user(u, k)
                            /\ last'.res = "ok"
            /\ accounts[u].is_active =>
                 /\ get_user(u) => last'.res = "ok"
                 /\ \A p \in Passwords :
                        (/\ Verifies(p, accounts[u].password)
                         /\ login_user(accounts[u].email, p))
                            => last'.res = "ok"
                 /\ accounts'[u].is_active
      ]_vars

\* An activated user has logged in while another user is still inactive.
C20_Witness ==
    /\ last.op = "login_user"
    /\ last.res = "ok"
    /\ \E u \in DOMAIN accounts, e \in DOMAIN activations :
            /\ accounts[u].is_active
            /\ activations[e].user_id = u
            /\ activations[e].is_activated
    /\ \E u \in DOMAIN accounts : ~accounts[u].is_active

\* ------------------------------------- properties of the parties of a chat

\* C21: every accepted proposal was sent by a party (the buyer or the
\* seller) of its conversation.
C21_AcceptedSentByParty ==
    \A p \in DOMAIN proposals :
        proposals[p].status = "accepted"
            => IsParty(p, proposals[p].sender_id)

\* C27: the sender and the receiver of every stored message are the buyer
\* and the seller of its conversation, in either order.
C27_MessageBetweenParties ==
    \A m \in DOMAIN messages :
        LET c == conversations[messages[m].conversation_id]
        IN {messages[m].sender_id, messages[m].receiver_id}
               = {c.buyer_id, c.seller_id}

\* The accepted proposals of conversation c.
AcceptedIn(c) ==
    {p \in DOMAIN proposals :
        /\ proposals[p].conversation_id = c
        /\ proposals[p].status = "accepted"}

\* C24: at most one proposal of a conversation has the status accepted, so
\* the accepted proposals of a conversation carry one price.
C24_OneAcceptedPerConversation ==
    \A c \in DOMAIN conversations :
        /\ Cardinality(AcceptedIn(c)) <= 1
        /\ Cardinality({proposals[p].proposed_price : p \in AcceptedIn(c)}) <= 1

\* ------------------------------------------- properties of paid orders

\* The paid orders of item i.
PaidOrdersOf(i) ==
    {o \in DOMAIN orders :
        orders[o].item_id = i /\ orders[o].payment_status = "paid"}

\* C22: for each item, at most one order has the payment_status paid.
C22_OnePaidOrderPerItem ==
    \A i \in Items : Cardinality(PaidOrdersOf(i)) <= 1

\* The payouts recorded for order o.
PayoutsFor(o) == {p \in DOMAIN payouts : payouts[p].order_id = o}

\* C23: once cancel_order has succeeded for an order, no step makes the
\* payment_status of that order paid and no step adds a payout for it.
C23_CanceledNeverPaid ==
    [][\A o \in DOMAIN orders :
        CancellationsOf(o) # {}
            => /\ orders'[o].payment_status = "paid"
                      => orders[o].payment_status = "paid"
               /\ {p \in DOMAIN payouts' : payouts'[p].order_id = o}
                      = PayoutsFor(o)
      ]_vars

\* C25: at most one payout exists for each order, and confirm_payment on
\* an intent whose order is already paid changes nothing.
C25_ConfirmIdempotent ==
    /\ [](\A o \in DOMAIN orders : Cardinality(PayoutsFor(o)) <= 1)
    /\ [][\A k \in DOMAIN intents :
            (/\ orders[intents[k].order_id].payment_status = "paid"
             /\ confirm_payment(k))
                => /\ last'.res = "ok"
                   /\ UNCHANGED <<restVars, chatVars, orderVars, payVars>>
         ]_vars

\* C25, its case: two intents of one order have both succeeded; the order
\* is paid with the first of them and has its one payout after the last
\* confirmation.
C25_Witness ==
    /\ last.op = "confirm_payment"
    /\ last.res = "ok"
    /\ Len(intents) = 2
    /\ intents[1].order_id = intents[2].order_id
    /\ intents[1].status = "succeeded"
    /\ intents[2].status = "succeeded"
    /\ orders[intents[1].order_id].payment_status = "paid"
    /\ Cardinality(PayoutsFor(intents[1].order_id)) = 1

\* C28: create_payment_intent called for an existing order by a user who is
\* not its buyer fails with UserNotAllowed and adds neither a seller
\* account nor a payment intent.
C28_OnlyBuyerPays ==
    [][\A o \in DOMAIN orders, u \in Users, f \in StripeFailures :
        (u # orders[o].buyer_id /\ create_payment_intent(o, u, f))
            => /\ last'.res = "UserNotAllowed"
               /\ UNCHANGED <<sellerAccounts, intents>>
      ]_vars

\* C28, its case: the seller of an order has asked for a payment intent and
\* was refused; no seller account and no intent exist.
C28_Witness ==
    /\ last.op = "create_payment_intent"
    /\ last.res = "UserNotAllowed"
    /\ orders # <<>>
    /\ sellerAccounts = {}
    /\ intents = <<>>

\* C29: create_payment_intent called by the buyer of an order whose
\* total_price is not positive, the payment provider answering every call,
\* fails with InvalidPaymentAmountError, adds no payment intent and leaves
\* the tables, the seller accounts among them, as they were.
C29_FreeOrderRefused ==
    [][\A o \in DOMAIN orders :
        (/\ orders[o].total_price <= 0
         /\ create_payment_intent(o, orders[o].buyer_id, "none"))
            => /\ last'.res = "InvalidPaymentAmountError"
               /\ UNCHANGED <<restVars, chatVars, orderVars, payVars>>
      ]_vars

\* ------------------------------------------------- properties of items

\* C30: when create_item fails with CategoryDoesNotExist, no item, image
\* or item-category link of that request is in the tables.
C30_FailedItemLeavesNothing ==
    [][\A u \in Users, im \in ImageLists, ca \in CategoryLists :
        (create_item(u, im, ca) /\ last'.res = "CategoryDoesNotExist")
            => UNCHANGED <<createdItems, itemImages, itemCategoryLinks>>
      ]_vars

\* C26: with confirm_payment requests of one succeeded intent running
\* together, an order never has more than one payout, and a paid order has
\* exactly one.
C26_ConcurrentConfirmOnce ==
    \A o \in DOMAIN orders :
        /\ Cardinality(PayoutsFor(o)) <= 1
        /\ orders[o].payment_status = "paid"
               => Cardinality(PayoutsFor(o)) = 1

====
